---- MODULE Spec2Model ----
(***************************************************************************)
(* Model of rattleback/ellipsoid_no_slip_steady.py: the derivation of the  *)
(* steady rolling equations of an ellipsoid, from the declaration of the   *)
(* symbols to the write of the generated code.  The script is one linear   *)
(* pipeline; pc is the position in it.  The symbolic values computed by    *)
(* the algebra library are carried as terms that record which operations   *)
(* the script applied to which operand, and the results the script cannot  *)
(* influence (the truth of an asserted identity, the table returned by the *)
(* elimination) are inputs.                                                *)
(***************************************************************************)
EXTENDS Integers, Sequences, FiniteSets, TLC

VARIABLES pc, i, j, k,
          angvel_R, vel_O, vel_RO, acc_RO,
          partial_w, partial_v_RO, steady_read, gaf_RO, R_star, T_star,
          checks, f_dyn, h, dh, filled,
          z, h_red, dh_red, output_code,
          sink, fh, writes

vars == <<pc, i, j, k, angvel_R, vel_O, vel_RO, acc_RO,
          partial_w, partial_v_RO, steady_read, gaf_RO, R_star, T_star,
          checks, f_dyn, h, dh, filled,
          z, h_red, dh_red, output_code, sink, fh, writes>>

(* ---- bounds and program constants ------------------------------------ *)

\* largest number of temporaries an elimination returns in the model
MaxZ == 2

NEq == 3       \* f_dyn = [0]*3, for i in range(3)
NRes == 2      \* for i in range(2): the two nontrivial residuals
NH == 4        \* h = [0]*4
NCoord == 2    \* for j in range(2): lean q[1], pitch q[2]
NDH == 8       \* dh = [0]*8

(* ---- symbolic values -------------------------------------------------- *)

\* A scalar expression: the source it was built from and the operations the
\* script applied to it, oldest first.
Expr(src, eq, ops) == [src |-> src, eq |-> eq, ops |-> ops]

\* the placeholder 0 of [0]*n
Zero == Expr("0", 0, <<>>)

\* f_r[i] + f_r_star[i]
Residual(n) == Expr("f_dyn", n, <<>>)

\* e.subs({qd[0]: 0})
SubsZeroRate(e) == [e EXCEPT !.ops = Append(@, "subs_qd0_0")]

\* e.coeff(qd[0]**2)
CoeffRateSquared(e) == [e EXCEPT !.ops = Append(@, "coeff_qd0_sq")]

\* e.diff(q[n])
Diff(e, n) == [e EXCEPT !.ops = Append(@, <<"diff_q0", "diff_q1", "diff_q2">>[n + 1])]

\* e.subs(symbol_dict)
Rename(e) == [e EXCEPT !.ops = Append(@, "rename")]

\* A velocity-like vector is carried by the form of the speeds in it:
\* "unset" (not assigned yet), "raw" (all three rates present) or "steady"
\* (after .subs(steady_dict)); an expression formed from two vectors is
\* "mixed" when they differ.
Combine(a, b) == IF a = b THEN a ELSE "mixed"

SubsSteady_dropped(v) == v

\* v.subs(steady_dict)
SubsSteady(v) == "steady"

(* ---- the entities whose assignments are counted ----------------------- *)

Ent(name, n) == <<name, n>>

Entities ==
    {Ent("R.ang_vel", 0), Ent("O.vel", 0), Ent("RO.vel", 0), Ent("RO.acc", 0),
     Ent("partial_w", 0), Ent("partial_v_RO", 0), Ent("R_star", 0),
     Ent("T_star", 0), Ent("z", 0)}
    \cup {Ent("f_dyn", n) : n \in 0..(NEq - 1)}
    \cup {Ent("h", n) : n \in 0..(NH - 1)}
    \cup {Ent("dh", n) : n \in 0..(NDH - 1)}

\* one more assignment to each entity of S
Assigned(w, S) == [e \in Entities |-> IF e \in S THEN w[e] + 1 ELSE w[e]]

SteadyTargets_wide ==
    {Ent("O.vel", 0), Ent("RO.vel", 0), Ent("R.ang_vel", 0), Ent("partial_w", 0)}

\* the three set_vel / set_ang_vel calls of the steady substitution
SteadyTargets == {Ent("O.vel", 0), Ent("RO.vel", 0), Ent("R.ang_vel", 0)}

(* ---- the derivation-invariant checks ---------------------------------- *)

CheckNames == {"steady", "cyclic0", "cyclic1", "cyclic2", "first_zero"}

CyclicName(n) == <<"cyclic0", "cyclic1", "cyclic2">>[n + 1]

AfterAssert_ignored(ok, next) == next

\* assert(cond): the run goes on when cond holds and ends otherwise
AfterAssert(ok, next) == IF ok THEN next ELSE "aborted"

Verdict(ok) == IF ok THEN "passed" ELSE "failed"

(* ---- index maps of the reduction -------------------------------------- *)

HSource_shifted(n) == n

\* f_dyn[i + 1]
HSource(n) == n + 1

DhIndex_flat(a, b) == a + b

\* dh[2*i + j]
DhIndex(a, b) == 2 * a + b

DhCoord_shifted(b) == b

\* q[j+1]
DhCoord(b) == b + 1

(* ---- initial state ----------------------------------------------------- *)

\* what the output file holds before the run, when it exists
OldText == << <<[t |-> "old", n |-> 0]>> >>

Init ==
    /\ pc = "declare"
    /\ i = 0 /\ j = 0 /\ k = 0
    /\ angvel_R = "unset" /\ vel_O = "unset" /\ vel_RO = "unset"
    /\ acc_RO = "unset"
    /\ partial_w = "unset" /\ partial_v_RO = "unset" /\ steady_read = "unset"
    /\ gaf_RO = "unset" /\ R_star = "unset" /\ T_star = "unset"
    /\ checks = [c \in CheckNames |-> "pending"]
    /\ f_dyn = <<>> /\ h = <<>> /\ dh = <<>>
    /\ filled = {}
    /\ z = <<>> /\ h_red = <<>> /\ dh_red = <<>>
    /\ output_code = <<>>
    /\ \E present \in BOOLEAN :
          sink = [exists |-> present, text |-> IF present THEN OldText ELSE <<>>]
    /\ fh = "none"
    /\ writes = [e \in Entities |-> 0]

(* ---- kinematics --------------------------------------------------------- *)

kin == <<angvel_R, vel_O, vel_RO, acc_RO, partial_w, partial_v_RO,
         steady_read, gaf_RO, R_star, T_star>>
red == <<f_dyn, h, dh, filled>>
emi == <<z, h_red, dh_red, output_code>>
out == <<sink, fh>>
idx == <<i, j, k>>

\* lines 5-17: symbols and generalized coordinates
Declare ==
    /\ pc = "declare"
    /\ pc' = "frames"
    /\ UNCHANGED <<idx, kin, checks, red, emi, out, writes>>

\* lines 19-27: frames N, Y, L, R, inertia dyadic, R.set_ang_vel
BuildFrames ==
    /\ pc = "frames"
    /\ angvel_R' = "raw"
    /\ writes' = Assigned(writes, {Ent("R.ang_vel", 0)})
    /\ pc' = "points"
    /\ UNCHANGED <<idx, vel_O, vel_RO, acc_RO, partial_w, partial_v_RO,
                   steady_read, gaf_RO, R_star, T_star, checks, red, emi, out>>

\* lines 30-44: P, O, O.set_vel, RO, RO.set_vel
BuildPoints ==
    /\ pc = "points"
    /\ vel_O' = angvel_R
    /\ vel_RO' = Combine(vel_O', angvel_R)
    /\ writes' = Assigned(writes, {Ent("O.vel", 0), Ent("RO.vel", 0)})
    /\ pc' = "partials"
    /\ UNCHANGED <<idx, angvel_R, acc_RO, partial_w, partial_v_RO,
                   steady_read, gaf_RO, R_star, T_star, checks, red, emi, out>>

\* lines 47-48: partial angular velocities and partial velocities
TakePartials ==
    /\ pc = "partials"
    /\ partial_w' = angvel_R
    /\ partial_v_RO' = vel_RO
    /\ writes' = Assigned(writes, {Ent("partial_w", 0), Ent("partial_v_RO", 0)})
    /\ pc' = "steady_subst"
    /\ UNCHANGED <<idx, angvel_R, vel_O, vel_RO, acc_RO,
                   steady_read, gaf_RO, R_star, T_star, checks, red, emi, out>>

\* lines 50-56: steady_dict, then the three velocities are set again
SteadySubst ==
    /\ pc = "steady_subst"
    /\ vel_O' = SubsSteady(vel_O)
    /\ vel_RO' = SubsSteady(vel_RO)
    /\ angvel_R' = SubsSteady(angvel_R)
    /\ writes' = Assigned(writes, SteadyTargets)
    /\ pc' = "assert_steady"
    /\ UNCHANGED <<idx, acc_RO, partial_w, partial_v_RO,
                   steady_read, gaf_RO, R_star, T_star, checks, red, emi, out>>

\* line 60: assert(RO.vel(N).diff(t, R).subs(steady_dict) == 0)
AssertSteady ==
    /\ pc = "assert_steady"
    /\ steady_read' = vel_RO
    /\ \E ok \in BOOLEAN :
          /\ checks' = [checks EXCEPT !["steady"] = Verdict(ok)]
          /\ pc' = AfterAssert(ok, "set_acc")
    /\ UNCHANGED <<idx, angvel_R, vel_O, vel_RO, acc_RO, partial_w,
                   partial_v_RO, gaf_RO, R_star, T_star, red, emi, out, writes>>

\* line 62: RO.set_acc(N, cross(R.ang_vel_in(N), RO.vel(N)))
SetAcc ==
    /\ pc = "set_acc"
    /\ acc_RO' = Combine(angvel_R, vel_RO)
    /\ writes' = Assigned(writes, {Ent("RO.acc", 0)})
    /\ pc' = "forces"
    /\ UNCHANGED <<idx, angvel_R, vel_O, vel_RO, partial_w, partial_v_RO,
                   steady_read, gaf_RO, R_star, T_star, checks, red, emi, out>>

\* lines 65-78: F_RO, gaf_RO, R_star, T_star and the three result lists
Forces ==
    /\ pc = "forces"
    /\ gaf_RO' = partial_v_RO
    /\ R_star' = acc_RO
    /\ T_star' = angvel_R
    /\ f_dyn' = [n \in 1..NEq |-> Zero]
    /\ writes' = Assigned(writes, {Ent("R_star", 0), Ent("T_star", 0)})
    /\ i' = 0
    /\ pc' = "dyn_loop"
    /\ UNCHANGED <<j, k, angvel_R, vel_O, vel_RO, acc_RO, partial_w,
                   partial_v_RO, steady_read, checks, h, dh, filled, emi, out>>

(* ---- dynamics and reduction -------------------------------------------- *)

\* lines 79-83: one pass of the loop, with its yaw-cyclicity assert
DynStep ==
    /\ pc = "dyn_loop" /\ i < NEq
    /\ f_dyn' = [f_dyn EXCEPT ![i + 1] = Residual(i)]
    /\ writes' = Assigned(writes, {Ent("f_dyn", i)})
    /\ \E ok \in BOOLEAN :
          /\ checks' = [checks EXCEPT ![CyclicName(i)] = Verdict(ok)]
          /\ pc' = AfterAssert(ok, "dyn_loop")
    /\ i' = i + 1
    /\ UNCHANGED <<j, k, kin, h, dh, filled, emi, out>>

\* line 86: assert(f_dyn[0] == 0)
AssertFirstZero ==
    /\ pc = "dyn_loop" /\ i = NEq
    /\ \E ok \in BOOLEAN :
          /\ checks' = [checks EXCEPT !["first_zero"] = Verdict(ok)]
          /\ pc' = AfterAssert(ok, "h_init")
    /\ UNCHANGED <<idx, kin, red, emi, out, writes>>

\* line 93: h = [0]*4
InitH ==
    /\ pc = "h_init"
    /\ h' = [n \in 1..NH |-> Zero]
    /\ i' = 0
    /\ pc' = "h_loop"
    /\ UNCHANGED <<j, k, kin, checks, f_dyn, dh, filled, emi, out, writes>>

\* lines 94-96: one pass of the loop over the two nontrivial residuals
HStep ==
    /\ pc = "h_loop" /\ i < NRes
    /\ h' = [h EXCEPT ![2 * i + 1] = SubsZeroRate(f_dyn[HSource(i) + 1]),
                      ![2 * i + 2] = CoeffRateSquared(f_dyn[HSource(i) + 1])]
    /\ filled' = filled \cup {Ent("h", 2 * i), Ent("h", 2 * i + 1)}
    /\ writes' = Assigned(writes, {Ent("h", 2 * i), Ent("h", 2 * i + 1)})
    /\ i' = i + 1
    /\ UNCHANGED <<pc, j, k, kin, checks, f_dyn, dh, emi, out>>

\* line 99: dh = [0]*8
InitDh ==
    /\ pc = "h_loop" /\ i = NRes
    /\ dh' = [n \in 1..NDH |-> Zero]
    /\ i' = 0 /\ j' = 0
    /\ pc' = "dh_loop"
    /\ UNCHANGED <<k, kin, checks, f_dyn, h, filled, emi, out, writes>>

\* lines 100-102: one pass of the inner loop
DhStep ==
    /\ pc = "dh_loop" /\ i < NH
    /\ dh' = [dh EXCEPT ![DhIndex(i, j) + 1] = Diff(h[i + 1], DhCoord(j))]
    /\ filled' = filled \cup {Ent("dh", DhIndex(i, j))}
    /\ writes' = Assigned(writes, {Ent("dh", DhIndex(i, j))})
    /\ IF j + 1 < NCoord
         THEN j' = j + 1 /\ i' = i
         ELSE j' = 0 /\ i' = i + 1
    /\ UNCHANGED <<pc, k, kin, checks, f_dyn, h, emi, out>>

\* line 105: symbol_dict
MakeSymbolDict ==
    /\ pc = "dh_loop" /\ i = NH
    /\ i' = 0
    /\ pc' = "rename_h"
    /\ UNCHANGED <<j, k, kin, checks, red, emi, out, writes>>

\* lines 108-109: h[i] = h[i].subs(symbol_dict)
RenameH ==
    /\ pc = "rename_h" /\ i < NH
    /\ h' = [h EXCEPT ![i + 1] = Rename(@)]
    /\ writes' = Assigned(writes, {Ent("h", i)})
    /\ IF i + 1 < NH
         THEN i' = i + 1 /\ pc' = "rename_h"
         ELSE i' = 0 /\ pc' = "rename_dh"
    /\ UNCHANGED <<j, k, kin, checks, f_dyn, dh, filled, emi, out>>

\* lines 110-111: dh[i] = dh[i].subs(symbol_dict)
RenameDh ==
    /\ pc = "rename_dh" /\ i < NDH
    /\ dh' = [dh EXCEPT ![i + 1] = Rename(@)]
    /\ writes' = Assigned(writes, {Ent("dh", i)})
    /\ IF i + 1 < NDH
         THEN i' = i + 1 /\ pc' = "rename_dh"
         ELSE i' = 0 /\ pc' = "cse_h"
    /\ UNCHANGED <<j, k, kin, checks, f_dyn, h, filled, emi, out>>

(* ---- common-subexpression elimination --------------------------------- *)

\* numbered_symbols('z'): the n-th symbol it yields is z<n>, from z0
NumberedSymbol(n) == n

\* A replacement pair (zi_lhs, zi_rhs) of a table; an expression handed to
\* the printer is carried by the set of temporaries it reads.
Pair(n, refs) == [lhs |-> NumberedSymbol(n), rhs |-> refs]

\* The tables cse(exprs, numbered_symbols('z')) can return: temporaries
\* z0, z1, ... taken in turn from a fresh generator, each defined from the
\* input symbols and from temporaries defined before it.
Tables ==
    UNION { { [p \in 1..n |-> Pair(p - 1, f[p])] :
                f \in { g \in [1..n -> SUBSET (0..(MaxZ - 1))] :
                          \A p \in 1..n : g[p] \subseteq 0..(p - 2) } } :
            n \in 0..MaxZ }

\* The reduced expressions returned with a table of n temporaries, one per
\* input expression: those of even index read the temporaries of R and
\* those of odd index the other temporaries of the table.
Reduced(n, len) ==
    { [p \in 1..len |-> IF p % 2 = 1 THEN R ELSE (0..(n - 1)) \ R] :
        R \in SUBSET (0..(n - 1)) }

(* ---- the printed text --------------------------------------------------- *)

\* The text is a sequence of lines and a line a sequence of tokens; a token
\* is a piece of text with the number written in it.
Tok(t, n) == [t |-> t, n |-> n]

RECURSIVE Ascending(_)
\* the members of a finite set of numbers, smallest first
Ascending(S) ==
    IF S = {} THEN <<>>
    ELSE LET m == CHOOSE x \in S : \A y \in S : x <= y
         IN  <<m>> \o Ascending(S \ {m})

\* ccode(expr): the input symbols and operators of the expression, and the
\* name z<n> of each temporary it reads
ccode(refs) ==
    LET zs == Ascending(refs)
    IN  <<Tok("expr", 0)>> \o [p \in 1..Len(zs) |-> Tok("z", zs[p])]

\* "  {0} = {1};\n".format(zi_lhs, ccode(zi_rhs))
TempLine(zi) == <<Tok("z", zi.lhs), Tok("=", 0)>> \o ccode(zi.rhs) \o <<Tok(";", 0)>>

HLhs_fixed(n) == Tok("h[]", 0)

\* "h[{0}]".format(i)
HLhs(n) == Tok("h[]", n)

\* "  h[{0}] = {1};\n".format(i, ccode(h_red[i]))
HLine(n, e) == <<HLhs(n), Tok("=", 0)>> \o ccode(e) \o <<Tok(";", 0)>>

\* "  dh[{0}] = {1};\n".format(i, ccode(dh_red[i]))
DhLine(n, e) == <<Tok("dh[]", n), Tok("=", 0)>> \o ccode(e) \o <<Tok(";", 0)>>

Comment(t) == <<Tok(t, 0)>>

Blank == <<>>

Iterate_reversed(tbl, n) == tbl[Len(tbl) + 1 - n]

\* for zi_lhs, zi_rhs in z: the n-th pair the loop visits
Iterate(tbl, n) == tbl[n]

\* re.sub(r"z(\d+)", r"z[\1]", text), on one token
ReSubTok(tok) == IF tok.t = "z" THEN Tok("z[]", tok.n) ELSE tok

\* re.sub(r"z(\d+)", r"z[\1]", output_code)
ReSub(text) ==
    [p \in 1..Len(text) |-> [q \in 1..Len(text[p]) |-> ReSubTok(text[p][q])]]

(* ---- emission ----------------------------------------------------------- *)

Rebind_stale(old, new) == old

\* z, dh_red = cse(dh, ...): the name z is bound to the new table
Rebind(old, new) == new

\* lines 114-117: cse(h, ...) and the first line of the text
CseH ==
    /\ pc = "cse_h"
    /\ \E tbl \in Tables :
         \E r \in Reduced(Len(tbl), NH) :
            /\ z' = tbl
            /\ h_red' = r
    /\ writes' = Assigned(writes, {Ent("z", 0)})
    /\ output_code' = <<Comment("// Intermediate variables for h's")>>
    /\ k' = 1
    /\ pc' = "emit_h_temps"
    /\ UNCHANGED <<i, j, kin, checks, red, dh_red, out>>

\* lines 118-119: one pass of the loop over the h table
EmitHTemp ==
    /\ pc = "emit_h_temps" /\ k <= Len(z)
    /\ output_code' = Append(output_code, TempLine(Iterate(z, k)))
    /\ k' = k + 1
    /\ UNCHANGED <<pc, i, j, kin, checks, red, z, h_red, dh_red, out, writes>>

\* line 121: the separator of the h assignments
EmitHSep ==
    /\ pc = "emit_h_temps" /\ k > Len(z)
    /\ output_code' = output_code \o <<Blank, Comment("// h's")>>
    /\ i' = 0
    /\ pc' = "emit_h"
    /\ UNCHANGED <<j, k, kin, checks, red, z, h_red, dh_red, out, writes>>

\* lines 122-123: one pass of the loop over h_red
EmitH ==
    /\ pc = "emit_h" /\ i < NH
    /\ output_code' = Append(output_code, HLine(i, h_red[i + 1]))
    /\ i' = i + 1
    /\ UNCHANGED <<pc, j, k, kin, checks, red, z, h_red, dh_red, out, writes>>

\* lines 126-129: cse(dh, ...), z is bound again, next comment line
CseDh ==
    /\ pc = "emit_h" /\ i = NH
    /\ \E tbl \in Tables :
         \E r \in Reduced(Len(tbl), NDH) :
            /\ z' = Rebind(z, tbl)
            /\ dh_red' = r
    /\ writes' = Assigned(writes, {Ent("z", 0)})
    /\ output_code' = output_code \o
                        <<Blank, Comment("// Intermediate variables for dh's")>>
    /\ k' = 1
    /\ pc' = "emit_dh_temps"
    /\ UNCHANGED <<i, j, kin, checks, red, h_red, out>>

\* lines 130-131: one pass of the loop over the dh table
EmitDhTemp ==
    /\ pc = "emit_dh_temps" /\ k <= Len(z)
    /\ output_code' = Append(output_code, TempLine(Iterate(z, k)))
    /\ k' = k + 1
    /\ UNCHANGED <<pc, i, j, kin, checks, red, z, h_red, dh_red, out, writes>>

\* line 133: the separator of the dh assignments
EmitDhSep ==
    /\ pc = "emit_dh_temps" /\ k > Len(z)
    /\ output_code' = output_code \o <<Blank, Comment("// dh's")>>
    /\ i' = 0
    /\ pc' = "emit_dh"
    /\ UNCHANGED <<j, k, kin, checks, red, z, h_red, dh_red, out, writes>>

\* lines 134-135: one pass of the loop over dh_red
EmitDh ==
    /\ pc = "emit_dh" /\ i < NDH
    /\ output_code' = Append(output_code, DhLine(i, dh_red[i + 1]))
    /\ i' = i + 1
    /\ UNCHANGED <<pc, j, k, kin, checks, red, z, h_red, dh_red, out, writes>>

\* lines 139-140: the temporaries are rewritten to array elements
Rewrite ==
    /\ pc = "emit_dh" /\ i = NDH
    /\ output_code' = ReSub(output_code)
    /\ pc' = "open"
    /\ UNCHANGED <<idx, kin, checks, red, z, h_red, dh_red, out, writes>>

\* line 142: file("ellipsoid_no_slip_steady.txt", 'w') creates or empties it
OpenFile ==
    /\ pc = "open"
    /\ sink' = [exists |-> TRUE, text |-> <<>>]
    /\ fh' = "open"
    /\ pc' = "write"
    /\ UNCHANGED <<idx, kin, checks, red, emi, writes>>

\* line 143: f.write(output_code)
WriteFile ==
    /\ pc = "write" /\ fh = "open"
    /\ sink' = [sink EXCEPT !.text = @ \o output_code]
    /\ pc' = "close"
    /\ UNCHANGED <<idx, kin, checks, red, emi, fh, writes>>

\* line 144: f.close()
CloseFile ==
    /\ pc = "close"
    /\ fh' = "closed"
    /\ pc' = "done"
    /\ UNCHANGED <<idx, kin, checks, red, emi, sink, writes>>

Next ==
    \/ Declare \/ BuildFrames \/ BuildPoints \/ TakePartials \/ SteadySubst
    \/ AssertSteady \/ SetAcc \/ Forces \/ DynStep \/ AssertFirstZero
    \/ InitH \/ HStep \/ InitDh \/ DhStep \/ MakeSymbolDict
    \/ RenameH \/ RenameDh
    \/ CseH \/ EmitHTemp \/ EmitHSep \/ EmitH
    \/ CseDh \/ EmitDhTemp \/ EmitDhSep \/ EmitDh
    \/ Rewrite \/ OpenFile \/ WriteFile \/ CloseFile

Spec == Init /\ [][Next]_vars

TypeOK ==
    /\ pc \in {"declare", "frames", "points", "partials", "steady_subst",
               "assert_steady", "set_acc", "forces", "dyn_loop", "h_init",
               "h_loop", "dh_loop", "rename_h", "rename_dh", "cse_h",
               "emit_h_temps", "emit_h", "emit_dh_temps", "emit_dh",
               "open", "write", "close", "done", "aborted"}
    /\ Len(z) <= MaxZ

(* ======================================================================= *)
(* Properties                                                              *)
(* ======================================================================= *)

AllChecks == <<"steady", "cyclic0", "cyclic1", "cyclic2", "first_zero">>

\* the output file is as it was before the run
SinkUntouched ==
    /\ fh = "none"
    /\ \/ sink = [exists |-> FALSE, text |-> <<>>]
       \/ sink = [exists |-> TRUE, text |-> OldText]

AllDerived ==
    ({Ent("h", n) : n \in 0..(NH - 1)} \cup {Ent("dh", n) : n \in 0..(NDH - 1)})
        \subseteq filled

\* C1: a failed check ends the run at that check (no later check is
\* evaluated) and leaves the output file as it was; the file is touched only
\* when all five checks have passed and all 4 h and 8 dh entries are derived.
C1_AbortBeforeOutput ==
    /\ \A p \in 1..Len(AllChecks) :
          checks[AllChecks[p]] = "failed" =>
             /\ pc = "aborted"
             /\ SinkUntouched
             /\ \A q \in (p + 1)..Len(AllChecks) : checks[AllChecks[q]] = "pending"
             /\ \A q \in 1..(p - 1) : checks[AllChecks[q]] = "passed"
    /\ pc = "aborted" => \E c \in CheckNames : checks[c] = "failed"
    /\ ~SinkUntouched =>
          /\ \A c \in CheckNames : checks[c] = "passed"
          /\ AllDerived

\* a run that ended at the last yaw-cyclicity check, an older output present
C1_Witness ==
    /\ pc = "aborted"
    /\ checks["cyclic2"] = "failed"
    /\ checks["steady"] = "passed"
    /\ sink = [exists |-> TRUE, text |-> OldText]

IsStmt(l) == Len(l) >= 2 /\ l[2].t = "="

\* the assigned names of the statements of a text, in text order
StmtLhs(T) ==
    LET S == SelectSeq(T, IsStmt)
    IN  [p \in 1..Len(S) |-> S[p][1]]

ExpectedLhs(nh, nd) ==
    [p \in 1..nh |-> Tok("z[]", p - 1)] \o [p \in 1..NH |-> Tok("h[]", p - 1)]
    \o [p \in 1..nd |-> Tok("z[]", p - 1)] \o [p \in 1..NDH |-> Tok("dh[]", p - 1)]

Written == pc \in {"close", "done"}

\* C2: the statements of the written text are, in this order, the
\* temporaries of the h table, h[0..3], the temporaries of the dh table and
\* dh[0..7], each h[i] and dh[i] once.
C2_BlockOrder ==
    Written => \E nh \in 0..MaxZ : StmtLhs(sink.text) = ExpectedLhs(nh, Len(z))

C2_Witness ==
    /\ pc = "done"
    /\ Len(z) >= 1
    /\ \E nh \in 1..MaxZ : StmtLhs(sink.text) = ExpectedLhs(nh, Len(z))

\* the expression before its renaming
Unrenamed(e) ==
    IF Len(e.ops) > 0 /\ e.ops[Len(e.ops)] = "rename"
      THEN [e EXCEPT !.ops = SubSeq(@, 1, Len(@) - 1)]
      ELSE e

AfterDhLoop ==
    pc \in {"rename_h", "rename_dh", "cse_h", "emit_h_temps", "emit_h",
            "emit_dh_temps", "emit_dh", "open", "write", "close", "done"}

\* C3: h has 4 entries and dh 8; dh[2i+j] is the derivative of h[i] with
\* respect to q[j+1] (up to the renaming of the symbols), and the loop
\* assigns each of the 8 slots once.
C3_DhRowMajor ==
    /\ Len(h) \in {0, NH}
    /\ Len(dh) \in {0, NDH}
    /\ \A a \in 0..(NH - 1) : \A b \in 0..(NCoord - 1) :
          Ent("dh", 2 * a + b) \in filled =>
             Unrenamed(dh[2 * a + b + 1]) = Diff(Unrenamed(h[a + 1]), b + 1)
    /\ AfterDhLoop => \A n \in 0..(NDH - 1) : Ent("dh", n) \in filled
    /\ pc = "rename_h" => \A n \in 0..(NDH - 1) : writes[Ent("dh", n)] = 1

C3_Witness ==
    /\ pc = "done"
    /\ dh[8] = Expr("f_dyn", 2, <<"coeff_qd0_sq", "diff_q2", "rename">>)
    /\ dh[7] = Expr("f_dyn", 2, <<"coeff_qd0_sq", "diff_q1", "rename">>)

AfterHLoop == pc = "dh_loop" \/ AfterDhLoop

Stage ==
    CASE pc = "declare" -> 1
      [] pc = "frames" -> 2
      [] pc = "points" -> 3
      [] pc \in {"partials", "steady_subst", "assert_steady", "set_acc",
                 "forces", "dyn_loop"} -> 4
      [] pc \in {"h_init", "h_loop", "dh_loop", "rename_h", "rename_dh"} -> 5
      [] pc = "cse_h" -> 6
      [] pc = "emit_h" /\ i = NH -> 6
      [] OTHER -> 7

Reassigned ==
    {Ent("R.ang_vel", 0), Ent("O.vel", 0), Ent("RO.vel", 0), Ent("z", 0)}
    \cup {Ent("h", n) : n \in 0..(NH - 1)}
    \cup {Ent("dh", n) : n \in 0..(NDH - 1)}

\* the steps in their order, the two eliminations and emissions apart
FineStage ==
    CASE Stage <= 5 -> Stage
      [] pc = "cse_h" -> 6
      [] pc = "emit_h_temps" \/ (pc = "emit_h" /\ i < NH) -> 7
      [] pc = "emit_h" /\ i = NH -> 8
      [] pc \in {"emit_dh_temps", "emit_dh"} -> 9
      [] OTHER -> 10

C8_SubstituteBetween ==
    /\ partial_w \in {"unset", "raw"}
    /\ partial_v_RO \in {"unset", "raw"}
    /\ gaf_RO \in {"unset", "raw"}
    /\ steady_read \in {"unset", "steady"}
    /\ acc_RO \in {"unset", "steady"}
    /\ R_star \in {"unset", "steady"}
    /\ T_star \in {"unset", "steady"}
    /\ (vel_O = "steady" \/ vel_RO = "steady" \/ angvel_R = "steady") =>
          partial_w = "raw" /\ partial_v_RO = "raw"
    /\ (checks["steady"] # "pending" \/ acc_RO # "unset") =>
          vel_O = "steady" /\ vel_RO = "steady" /\ angvel_R = "steady"

C8_Witness ==
    /\ T_star = "steady"
    /\ R_star = "steady"
    /\ partial_w = "raw"
    /\ gaf_RO = "raw"

IsTemp(tok) == tok.t \in {"z", "z[]"}

\* the temporaries read on the right of a statement
Reads(l) == {l[q].n : q \in {r \in 3..Len(l) : IsTemp(l[r])}}

AssignsTemp(l, n) == IsStmt(l) /\ IsTemp(l[1]) /\ l[1].n = n

InDhBlock(T, p) ==
    \E q \in 1..p : T[q] = Comment("// Intermediate variables for dh's")

DefinedBeforeUse(T) ==
    \A p \in 1..Len(T) :
       IsStmt(T[p]) =>
          \A n \in Reads(T[p]) :
             \E q \in 1..(p - 1) :
                AssignsTemp(T[q], n) /\ InDhBlock(T, q) = InDhBlock(T, p)

\* C9: a temporary of a table reads only temporaries placed before it in
\* the table, and in the text, at every moment of the emission and in the
\* file, each read of a temporary follows its assignment in the same block.
C9_DefinedBeforeUse ==
    /\ \A p \in 1..Len(z) : z[p].rhs \subseteq {z[q].lhs : q \in 1..(p - 1)}
    /\ DefinedBeforeUse(output_code)
    /\ DefinedBeforeUse(sink.text)

C9_Witness ==
    /\ pc = "done"
    /\ \E p \in 1..Len(sink.text) :
          /\ InDhBlock(sink.text, p)
          /\ AssignsTemp(sink.text[p], 1)
          /\ 0 \in Reads(sink.text[p])
    /\ \E p \in 1..Len(sink.text) :
          /\ IsStmt(sink.text[p])
          /\ sink.text[p][1] = Tok("dh[]", 1)
          /\ Reads(sink.text[p]) = {0, 1}

IsHStmt(l) == IsStmt(l) /\ l[1].t = "h[]"

\* C10: in the file each block numbers its temporaries from 0, all h[i]
\* assignments come before the first temporary of the dh block, and the
\* latest assignment before any read of z[k] in the dh block is one of the
\* dh block.
C10_SeparateTables ==
    Written =>
       LET T == sink.text
       IN  /\ \A p \in 1..Len(T) :
                (IsStmt(T[p]) /\ IsTemp(T[p][1])
                   /\ ~\E q \in 1..(p - 1) :
                         /\ IsStmt(T[q]) /\ IsTemp(T[q][1])
                         /\ InDhBlock(T, q) = InDhBlock(T, p))
                => T[p][1].n = 0
           /\ \A p \in 1..Len(T) : \A q \in 1..Len(T) :
                (IsHStmt(T[p]) /\ IsStmt(T[q]) /\ InDhBlock(T, q)) => p < q
           /\ \A p \in 1..Len(T) :
                (IsStmt(T[p]) /\ InDhBlock(T, p)) =>
                   \A n \in Reads(T[p]) :
                      \E q \in 1..(p - 1) :
                         /\ AssignsTemp(T[q], n)
                         /\ InDhBlock(T, q)
                         /\ \A r \in (q + 1)..(p - 1) : ~AssignsTemp(T[r], n)

C10_Witness ==
    /\ pc = "done"
    /\ \E p \in 1..Len(sink.text) :
          ~InDhBlock(sink.text, p) /\ AssignsTemp(sink.text[p], 0)
    /\ \E p \in 1..Len(sink.text) :
          InDhBlock(sink.text, p) /\ AssignsTemp(sink.text[p], 0)
    /\ \E p \in 1..Len(sink.text) :
          /\ IsStmt(sink.text[p]) /\ sink.text[p][1].t = "dh[]"
          /\ 0 \in Reads(sink.text[p])

====
